---- MODULE Spec2Model ----
(***************************************************************************)
(* Model of src/src/server.ts: a single-room socket.io chat relay.         *)
(* State: the users Map (socket id -> sanitized name, insertion ordered),  *)
(* the typingUsers Set, the transport's view of every socket, the server   *)
(* clock, and whether the Node process died of an uncaught exception.      *)
(* Every handler body runs to completion (single-threaded event loop), so  *)
(* each handler and each reaper sweep is one action.                       *)
(***************************************************************************)
EXTENDS Integers, Sequences, FiniteSets

\* ---- bounds -------------------------------------------------------------
MaxClock == 1

\* ---- values -------------------------------------------------------------
\* socket ids (socket.id is a string)
Conns == {"s1", "s2"}
MsgIds == {"m1", "m2"}
\* A string is a sequence of units: a plain character or one markup element.
MarkupTokens == {"<script>"}
\* the display names clients ask for
Strings == {<<"a">>, <<"a", "a">>, <<"<script>">>, <<"<script>", "a">>}

\* JavaScript values a client can put where the handler expects a string.
Str(s) == [t |-> "string", s |-> s]
\* an object whose toString is not a function, e.g. {"toString": 1}
Unstringable == [t |-> "object"]
Null == [t |-> "null"]
\* what a client sends as a display name
JsTexts == {Str(s) : s \in Strings} \cup {Unstringable}
\* what a client sends as a message text and as a timestamp
Texts == {<<"a">>, <<"<script>", "a">>}
JsMsgTexts == {Str(s) : s \in Texts} \cup {Unstringable}
ClientTimes == {0, 1}
\* payloads of the message and editMessage events (ChatMessage, or no object)
ChatMessages == [id : MsgIds, text : JsMsgTexts, timestamp : ClientTimes] \cup {Null}
EditPayloads == [id : MsgIds, text : JsMsgTexts] \cup {Null}

VARIABLES
    conn,         \* transport: socket state per connection
    users,        \* const users = new Map<string, string>()
    typingUsers,  \* const typingUsers = new Set<string>()
    clock,        \* the server's clock, read by new Date()
    crashed,      \* the process ended on an uncaught exception
    out,          \* events emitted by the last handler run, in order
    last,         \* the inbound event (or timer) the last handler run handled
    createdOrder, \* history: socket ids in the order their entries were created
    lastUserList, \* history: the most recent userList broadcast, if any
    typingSince   \* history, when recorded: present connections whose last
                  \* typing signal was true

vars == <<conn, users, typingUsers, clock, crashed, out, last, createdOrder,
          lastUserList, typingSince>>

\* ---- DOMPurify.sanitize --------------------------------------------------
IsPlain(t) == t \notin MarkupTokens

\* the string is passed on as received
sanitizeNothing(s) == s

\* sanitize of a string: markup elements are removed, plain text is kept
sanitize(s) == SelectSeq(s, IsPlain)

\* DOMPurify throws a TypeError on a value it cannot turn into a string
sanitizeThrows(v) == v.t # "string"

\* ---- the Map ------------------------------------------------------------
Undefined == <<"undefined">>

MapKeys(m) == [i \in 1..Len(m) |-> m[i].id]

MapHas(m, k) == \E i \in 1..Len(m) : m[i].id = k

MapGet(m, k) ==
    IF MapHas(m, k) THEN m[CHOOSE i \in 1..Len(m) : m[i].id = k].name
    ELSE Undefined

\* set as delete-then-insert: a key set again moves to the end
MapSetReinsert(m, k, v) ==
    Append(SelectSeq(m, LAMBDA e : e.id # k), [id |-> k, name |-> v])

\* Map.prototype.set: an existing key keeps its position, a new key is appended
MapSet(m, k, v) ==
    IF MapHas(m, k)
    THEN [i \in 1..Len(m) |-> IF m[i].id = k THEN [id |-> k, name |-> v] ELSE m[i]]
    ELSE Append(m, [id |-> k, name |-> v])

MapDelete(m, k) == SelectSeq(m, LAMBDA e : e.id # k)

\* Array.from(users.values())
ArrayFromValues(m) == [i \in 1..Len(m) |-> m[i].name]

\* the lookup's result is used without the if (username) test
TruthyUnchecked(v) == TRUE

\* if (username): undefined and the empty string are falsy
Truthy(v) == v # Undefined /\ v # <<>>

\* ---- the transport ------------------------------------------------------
\* sockets currently in the namespace: the recipients of io.emit
Connected == {c \in Conns : conn[c] = "connected"}

\* io.sockets.sockets.get(socketId)?.connected
SocketConnected(cs, c) == cs[c] = "connected"

\* io.emit(ev) / socket.emit(ev)
IoEmit(to, ev) == [to |-> to, ev |-> ev]

SocketEmit(c, ev) == [to |-> {c}, ev |-> ev]

\* ---- outbound events (ServerToClientEvents) -----------------------------
userJoinedEv(name) ==
    [type |-> "userJoined", username |-> name, message |-> name \o <<"joined">>]

userLeftEv(name) ==
    [type |-> "userLeft", username |-> name, message |-> name \o <<"left">>]

\* ids is history: the socket ids whose values the array was built from
userListEv(m) ==
    [type |-> "userList", users |-> ArrayFromValues(m), ids |-> MapKeys(m)]

messageEv(id, text, username, now) ==
    [type |-> "message", id |-> id, text |-> text, username |-> username,
     timestamp |-> now]

messageDeletedEv(id) == [type |-> "messageDeleted", messageId |-> id]

messageEditedEv(id, text) ==
    [type |-> "messageEdited", id |-> id, text |-> text, edited |-> TRUE]

typingEv(name, isTyping) ==
    [type |-> "typing", username |-> name, isTyping |-> isTyping]

errorEv == [type |-> "error", message |-> "send failed"]

\* ---- initial state ------------------------------------------------------
Started ==
    /\ conn = [c \in Conns |-> "new"]
    /\ users = <<>>
    /\ typingUsers = {}
    /\ clock = 0
    /\ crashed = FALSE
    /\ out = <<>>
    /\ last = [op |-> "init"]
    /\ createdOrder = <<>>
    /\ lastUserList = [sent |-> FALSE]

Init == Started /\ typingSince = [on |-> FALSE]

\* the same start, with the typing signals recorded
InitRecording == Started /\ typingSince = [on |-> TRUE, conns |-> {}]

\* ---- history ------------------------------------------------------------
\* the most recent userList after a handler run that emitted o
ListAfter(prev, o) ==
    LET lists == {i \in 1..Len(o) : o[i].ev.type = "userList"}
    IN  IF lists = {} THEN prev
        ELSE [sent |-> TRUE,
              users |-> o[CHOOSE i \in lists : \A j \in lists : j <= i].ev.users]

\* a typing signal of a present connection is remembered until its opposite
SinceAfterTyping(since, m, c, isTyping) ==
    IF since.on /\ MapHas(m, c)
    THEN [on |-> TRUE,
          conns |-> IF isTyping THEN since.conns \cup {c} ELSE since.conns \ {c}]
    ELSE since

\* a connection removed from the registry is forgotten
SinceAfterRemoval(since, m) ==
    IF since.on
    THEN [on |-> TRUE, conns |-> {c \in since.conns : MapHas(m, c)}]
    ELSE since

\* ---- io.on("connection") -------------------------------------------------
connection(c) ==
    /\ ~crashed
    /\ conn[c] = "new"
    /\ conn' = [conn EXCEPT ![c] = "connected"]
    /\ out' = <<>>
    /\ last' = [op |-> "connection", c |-> c]
    /\ UNCHANGED <<users, typingUsers, clock, crashed, createdOrder,
                   lastUserList, typingSince>>

\* the transport loses a connection without delivering a close notification
transportLost(c) ==
    /\ ~crashed
    /\ conn[c] = "connected"
    /\ conn' = [conn EXCEPT ![c] = "dead"]
    /\ out' = <<>>
    /\ last' = [op |-> "transportLost", c |-> c]
    /\ UNCHANGED <<users, typingUsers, clock, crashed, createdOrder,
                   lastUserList, typingSince>>

\* time passes on the server
Tick ==
    /\ ~crashed
    /\ clock < MaxClock
    /\ clock' = clock + 1
    /\ out' = <<>>
    /\ last' = [op |-> "tick"]
    /\ UNCHANGED <<conn, users, typingUsers, crashed, createdOrder,
                   lastUserList, typingSince>>

\* ---- socket.on("join") ---------------------------------------------------
\* the list is sent before the join notice
joinEmitsListFirst(to, us, name) ==
    <<IoEmit(to, userListEv(us)), IoEmit(to, userJoinedEv(name))>>

joinEmits(to, us, name) ==
    <<IoEmit(to, userJoinedEv(name)), IoEmit(to, userListEv(us))>>

join(c, username) ==
    /\ ~crashed
    /\ conn[c] = "connected"
    /\ IF sanitizeThrows(username)
       THEN /\ crashed' = TRUE
            /\ out' = <<>>
            /\ UNCHANGED <<users, createdOrder>>
       ELSE LET sanitizedUsername == sanitize(username.s)
                us == MapSet(users, c, sanitizedUsername)
            IN  /\ users' = us
                /\ out' = joinEmits(Connected, us, sanitizedUsername)
                /\ createdOrder' =
                       IF MapHas(users, c) THEN createdOrder
                       ELSE Append(createdOrder, c)
                /\ UNCHANGED crashed
    /\ last' = [op |-> "join", c |-> c, username |-> username]
    /\ lastUserList' = ListAfter(lastUserList, out')
    /\ UNCHANGED <<conn, typingUsers, clock, typingSince>>

\* ---- socket.on("message") ------------------------------------------------
\* what the try block throws on: data.text of no object, or the sanitizer
messageThrows(data) == data = Null \/ sanitizeThrows(data.text)

messageTimestamp(data, now) == now

messageEmits(c, to, name, data, now) ==
    IF Truthy(name)
    THEN IF messageThrows(data)
         THEN <<SocketEmit(c, errorEv)>>
         ELSE <<IoEmit(to, messageEv(data.id, sanitize(data.text.s), name,
                                     messageTimestamp(data, now)))>>
    ELSE <<>>

\* sending a message also ends the sender's typing state
messageClearsTyping(c, data) ==
    /\ ~crashed
    /\ conn[c] = "connected"
    /\ out' = messageEmits(c, Connected, MapGet(users, c), data, clock)
    /\ last' = [op |-> "message", c |-> c, data |-> data]
    /\ typingUsers' = typingUsers \ {MapGet(users, c)}
    /\ UNCHANGED <<conn, users, clock, crashed, createdOrder,
                   lastUserList, typingSince>>

message(c, data) ==
    /\ ~crashed
    /\ conn[c] = "connected"
    /\ out' = messageEmits(c, Connected, MapGet(users, c), data, clock)
    /\ last' = [op |-> "message", c |-> c, data |-> data]
    /\ UNCHANGED <<conn, users, typingUsers, clock, crashed, createdOrder,
                   lastUserList, typingSince>>

\* ---- socket.on("deleteMessage") ------------------------------------------
deleteMessageEmits(to, messageId) == <<IoEmit(to, messageDeletedEv(messageId))>>

deleteMessage(c, messageId) ==
    /\ ~crashed
    /\ conn[c] = "connected"
    /\ out' = deleteMessageEmits(Connected, messageId)
    /\ last' = [op |-> "deleteMessage", c |-> c, messageId |-> messageId]
    /\ UNCHANGED <<conn, users, typingUsers, clock, crashed, createdOrder,
                   lastUserList, typingSince>>

\* ---- socket.on("editMessage") --------------------------------------------
\* the text is rebroadcast as received
editMessageEmitsRaw(to, data) ==
    <<IoEmit(to, messageEditedEv(data.id, data.text.s))>>

editMessageEmits(to, data) ==
    <<IoEmit(to, messageEditedEv(data.id, sanitize(data.text.s)))>>

\* no try block: a throw leaves the handler as an uncaught exception
editMessage(c, data) ==
    /\ ~crashed
    /\ conn[c] = "connected"
    /\ IF messageThrows(data)
       THEN /\ crashed' = TRUE
            /\ out' = <<>>
       ELSE /\ out' = editMessageEmits(Connected, data)
            /\ UNCHANGED crashed
    /\ last' = [op |-> "editMessage", c |-> c, data |-> data]
    /\ UNCHANGED <<conn, users, typingUsers, clock, createdOrder,
                   lastUserList, typingSince>>

\* ---- socket.on("typing") -------------------------------------------------
typingSet(ts, name, isTyping) ==
    IF isTyping THEN ts \cup {name} ELSE ts \ {name}

typing(c, isTyping) ==
    /\ ~crashed
    /\ conn[c] = "connected"
    /\ LET username == MapGet(users, c)
       IN  IF Truthy(username)
           THEN /\ typingUsers' = typingSet(typingUsers, username, isTyping)
                /\ out' = <<IoEmit(Connected, typingEv(username, isTyping))>>
           ELSE /\ out' = <<>>
                /\ UNCHANGED typingUsers
    /\ last' = [op |-> "typing", c |-> c, isTyping |-> isTyping]
    /\ typingSince' = SinceAfterTyping(typingSince, users, c, isTyping)
    /\ UNCHANGED <<conn, users, clock, crashed, createdOrder, lastUserList>>

\* ---- socket.on("disconnect") ---------------------------------------------
disconnectUsers(m, c) ==
    IF Truthy(MapGet(m, c)) THEN MapDelete(m, c) ELSE m

disconnectTyping(ts, m, c) ==
    IF Truthy(MapGet(m, c)) THEN ts \ {MapGet(m, c)} ELSE ts

\* the list is built before the entry is deleted
disconnectEmitsStaleList(to, m, c) ==
    IF Truthy(MapGet(m, c))
    THEN <<IoEmit(to, userLeftEv(MapGet(m, c))), IoEmit(to, userListEv(m))>>
    ELSE <<>>

disconnectEmits(to, m, c) ==
    IF Truthy(MapGet(m, c))
    THEN <<IoEmit(to, userLeftEv(MapGet(m, c))),
           IoEmit(to, userListEv(MapDelete(m, c)))>>
    ELSE <<>>

\* the socket has left the namespace when its disconnect handler runs
disconnect(c) ==
    /\ ~crashed
    /\ conn[c] \in {"connected", "dead"}
    /\ conn' = [conn EXCEPT ![c] = "gone"]
    /\ typingUsers' = disconnectTyping(typingUsers, users, c)
    /\ users' = disconnectUsers(users, c)
    /\ out' = disconnectEmits(Connected \ {c}, users, c)
    /\ last' = [op |-> "disconnect", c |-> c, username |-> MapGet(users, c)]
    /\ lastUserList' = ListAfter(lastUserList, out')
    /\ typingSince' = SinceAfterRemoval(typingSince, users')
    /\ UNCHANGED <<clock, crashed, createdOrder>>

\* ---- setInterval: the reaper sweep ---------------------------------------
\* the loop steps past the entry that follows a deleted one
RECURSIVE sweepUsersSkip(_, _, _)
sweepUsersSkip(m, cs, i) ==
    IF i > Len(m) THEN m
    ELSE IF ~SocketConnected(cs, m[i].id)
         THEN sweepUsersSkip(MapDelete(m, m[i].id), cs, i + 1)
         ELSE sweepUsersSkip(m, cs, i + 1)

\* the liveness test is inverted: the entries of connected sockets go
RECURSIVE sweepUsersInverted(_, _, _)
sweepUsersInverted(m, cs, i) ==
    IF i > Len(m) THEN m
    ELSE IF SocketConnected(cs, m[i].id)
         THEN sweepUsersInverted(MapDelete(m, m[i].id), cs, i)
         ELSE sweepUsersInverted(m, cs, i + 1)

\* the loop from entry i on: a dead entry is deleted, the iteration goes on
RECURSIVE sweepUsers(_, _, _)
sweepUsers(m, cs, i) ==
    IF i > Len(m) THEN m
    ELSE IF ~SocketConnected(cs, m[i].id)
         THEN sweepUsers(MapDelete(m, m[i].id), cs, i)
         ELSE sweepUsers(m, cs, i + 1)

\* one userList per deleted entry, each computed right after its deletion
RECURSIVE sweepEmits(_, _, _, _)
sweepEmits(to, m, cs, i) ==
    IF i > Len(m) THEN <<>>
    ELSE IF ~SocketConnected(cs, m[i].id)
         THEN <<IoEmit(to, userListEv(MapDelete(m, m[i].id)))>>
              \o sweepEmits(to, MapDelete(m, m[i].id), cs, i)
         ELSE sweepEmits(to, m, cs, i + 1)

Sweep ==
    /\ ~crashed
    /\ users' = sweepUsers(users, conn, 1)
    /\ out' = sweepEmits(Connected, users, conn, 1)
    /\ last' = [op |-> "sweep"]
    /\ lastUserList' = ListAfter(lastUserList, out')
    /\ typingSince' = SinceAfterRemoval(typingSince, users')
    /\ UNCHANGED <<conn, typingUsers, clock, crashed, createdOrder>>

\* ---- specification -------------------------------------------------------
Next ==
    \/ \E c \in Conns : connection(c)
    \/ \E c \in Conns : transportLost(c)
    \/ Tick
    \/ \E c \in Conns, username \in JsTexts : join(c, username)
    \/ \E c \in Conns, data \in ChatMessages : message(c, data)
    \/ \E c \in Conns, messageId \in MsgIds : deleteMessage(c, messageId)
    \/ \E c \in Conns, data \in EditPayloads : editMessage(c, data)
    \/ \E c \in Conns, isTyping \in BOOLEAN : typing(c, isTyping)
    \/ \E c \in Conns : disconnect(c)
    \/ Sweep

Spec == Init /\ [][Next]_vars

\* the same server, observed with the typing signals recorded
RecordingSpec == InitRecording /\ [][Next]_vars

\* the interval timer keeps firing while the process runs
FairSpec == Spec /\ WF_vars(Sweep)

\* ---- properties ----------------------------------------------------------
HasEntry(c) == MapHas(users, c)

\* the positions of out that hold an event of the given type
OutOfType(type) == {i \in 1..Len(out) : out[i].ev.type = type}

\* C1: a message with sanitizable text from a connection that holds a registry
\* entry, whatever its display name, is delivered exactly once to every
\* connected connection, carrying the client's id, sanitize(text), the
\* sender's registry name and the server's time, not the client's timestamp.
C1_MessageReachesAll ==
    (last.op = "message" /\ HasEntry(last.c) /\ ~messageThrows(last.data)) =>
        /\ Len(out) = 1
        /\ out[1].to = Connected
        /\ last.c \in out[1].to
        /\ out[1].ev = [type |-> "message", id |-> last.data.id,
                        text |-> sanitize(last.data.text.s),
                        username |-> MapGet(users, last.c),
                        timestamp |-> clock]

\* C2: once the disconnect notification of a connection is handled, the
\* registry holds no entry for it, no userList broadcast has an element
\* contributed by it, and the name it had is not in the typing set.
C2_DisconnectRemovesEntry ==
    /\ \A c \in Conns : conn[c] = "gone" =>
           /\ ~HasEntry(c)
           /\ \A i \in OutOfType("userList") :
                  \A j \in 1..Len(out[i].ev.ids) : out[i].ev.ids[j] # c
    /\ last.op = "disconnect" => last.username \notin typingUsers

\* C3: message, typing and disconnect from a connection with no registry
\* entry emit nothing and leave the registry and the typing set unchanged.
C3_NoEntryIgnored ==
    [][(/\ last'.op \in {"message", "typing", "disconnect"}
        /\ ~HasEntry(last'.c))
       => (out' = <<>> /\ users' = users /\ typingUsers' = typingUsers)]_vars

\* an unjoined connection's malformed message was ignored while another
\* connection is present and typing
C3_Witness ==
    /\ last.op = "message"
    /\ ~HasEntry(last.c)
    /\ last.data = Null
    /\ Len(users) > 0
    /\ typingUsers # {}
    /\ Connected = Conns

\* C4: a completed sweep leaves no entry whose connection was not alive when
\* the sweep started; so, while the timer keeps firing, the entry of a
\* connection that is not alive is removed, whether or not a disconnect
\* notification is ever handled for it.
C4_SweepRemovesDead ==
    /\ [][last'.op = "sweep" =>
            \A i \in 1..Len(users') : SocketConnected(conn, users'[i].id)]_vars
    /\ \A c \in Conns :
           (HasEntry(c) /\ ~SocketConnected(conn, c)) ~> (~HasEntry(c) \/ crashed)

\* one sweep removed the entries of two connections that are not alive, one
\* of them lost without a disconnect notification
C4_Witness ==
    /\ last.op = "sweep"
    /\ Len(out) = 2
    /\ users = <<>>
    /\ \E c \in Conns : conn[c] = "dead"

\* C5: whenever an entry leaves the registry, by disconnect or by the sweep,
\* its display name is not in the typing set after that step.
C5_RemovalClearsTyping ==
    [][\A c \in Conns :
          (HasEntry(c) /\ ~MapHas(users', c)) =>
              MapGet(users, c) \notin typingUsers']_vars

\* C6: join(rawName) from c sets c's entry to sanitize(rawName) and emits to
\* every connected connection exactly userJoined{sanitize(rawName)} and then
\* userList of the registry after the insertion, with an element for c.
C6_JoinEmitsJoinedThenList ==
    (last.op = "join" /\ ~sanitizeThrows(last.username)) =>
        /\ MapGet(users, last.c) = sanitize(last.username.s)
        /\ Len(out) = 2
        /\ out[1].to = Connected /\ out[2].to = Connected
        /\ out[1].ev.type = "userJoined"
        /\ out[1].ev.username = sanitize(last.username.s)
        /\ out[2].ev.type = "userList"
        /\ out[2].ev.users = ArrayFromValues(users)
        /\ \E i \in 1..Len(out[2].ev.ids) :
               /\ out[2].ev.ids[i] = last.c
               /\ out[2].ev.users[i] = sanitize(last.username.s)

\* a name with markup was joined while the other connection, present under
\* another name, was listening
C6_Witness ==
    /\ last.op = "join"
    /\ last.username = Str(<<"<script>", "a">>)
    /\ Connected = Conns
    /\ Len(users) = 2
    /\ users[1].name # users[2].name

NoDup(seq) == \A i, j \in 1..Len(seq) : i # j => seq[i] # seq[j]

Pos(seq, x) == CHOOSE i \in 1..Len(seq) : seq[i] = x

\* ids lists entries in the order in which they were created
InCreationOrder(ids) ==
    /\ \A i \in 1..Len(ids) : \E k \in 1..Len(createdOrder) : createdOrder[k] = ids[i]
    /\ \A i, j \in 1..Len(ids) :
           i < j => Pos(createdOrder, ids[i]) < Pos(createdOrder, ids[j])

\* C7: every userList has one element per registry entry and no other, in the
\* order in which the entries were created; a repeated join on a present
\* connection adds no element and moves none.
C7_UserListMirrorsRegistry ==
    /\ NoDup(MapKeys(users))
    /\ InCreationOrder(MapKeys(users))
    /\ \A i \in OutOfType("userList") :
           /\ Len(out[i].ev.users) = Len(out[i].ev.ids)
           /\ NoDup(out[i].ev.ids)
           /\ InCreationOrder(out[i].ev.ids)
    /\ \A i \in OutOfType("userList") :
           (\A j \in OutOfType("userList") : j <= i) =>
               /\ out[i].ev.ids = MapKeys(users)
               /\ out[i].ev.users = ArrayFromValues(users)

\* Alice then Bob joined on two connections, then Alice's connection joined
\* again: the list is still [Alice, Bob]
C7_Witness ==
    /\ last.op = "join"
    /\ Len(users) = 2
    /\ last.c = users[1].id
    /\ createdOrder = <<users[1].id, users[2].id>>
    /\ Len(out) = 2
    /\ out[2].ev.users = << <<"a">>, <<"a", "a">> >>

\* C8: deleteMessage(id) and editMessage{id, text} from any connection,
\* joined or not, deliver messageDeleted(id), respectively
\* messageEdited{id, sanitize(text), edited = true}, to every connected
\* connection, the sender included.
C8_DeleteEditReachAll ==
    /\ last.op = "deleteMessage" =>
           /\ out = <<[to |-> Connected,
                       ev |-> [type |-> "messageDeleted",
                               messageId |-> last.messageId]]>>
           /\ last.c \in out[1].to
    /\ (last.op = "editMessage" /\ ~messageThrows(last.data)) =>
           /\ out = <<[to |-> Connected,
                       ev |-> [type |-> "messageEdited", id |-> last.data.id,
                               text |-> sanitize(last.data.text.s),
                               edited |-> TRUE]]>>
           /\ last.c \in out[1].to

\* a connection that never joined edited a message to a text with markup,
\* while the other connection was present
C8_Witness ==
    /\ last.op = "editMessage"
    /\ ~HasEntry(last.c)
    /\ last.data # Null
    /\ last.data.text = Str(<<"<script>", "a">>)
    /\ Connected = Conns
    /\ Len(users) = 1

\* C9: a message from a joined connection whose processing fails (malformed
\* payload, or a text the sanitizer throws on) broadcasts nothing and sends
\* exactly one error event, to the sender only.
C9_FailureYieldsOneError ==
    (last.op = "message" /\ HasEntry(last.c) /\ messageThrows(last.data)) =>
        out = <<[to |-> {last.c}, ev |-> errorEv]>>

\* an inbound event whose handling fails
FailingEvent(l) ==
    \/ l.op = "join" /\ sanitizeThrows(l.username)
    \/ l.op \in {"message", "editMessage"} /\ messageThrows(l.data)

\* C10: a failure while handling one inbound event does not stop the router
\* and leaves the registry and the typing set as they were.
C10_FailureScoped ==
    [][FailingEvent(last') =>
          (~crashed' /\ users' = users /\ typingUsers' = typingUsers)]_vars

\* C11: the display name of an existing registry entry never changes: no
\* inbound event or sweep, a second join of the same connection included,
\* alters it.
C11_NameNeverChanges ==
    [][\A c \in Conns :
          (HasEntry(c) /\ MapHas(users', c)) =>
              MapGet(users', c) = MapGet(users, c)]_vars

\* a string with no markup element in it
MarkupFree(s) == \A i \in 1..Len(s) : s[i] \notin MarkupTokens

\* what the sanitizer gives for the strings clients send
SanitizerOutputs == {sanitize(s) : s \in Strings \cup Texts}

IsSanitizerOutput(s) == MarkupFree(s) /\ s \in SanitizerOutputs

\* the username and text fields an outbound event carries
EventStrings(ev) ==
    CASE ev.type \in {"userJoined", "userLeft", "typing"} -> {ev.username}
      [] ev.type = "userList" -> {ev.users[j] : j \in 1..Len(ev.users)}
      [] ev.type = "message" -> {ev.username, ev.text}
      [] ev.type = "messageEdited" -> {ev.text}
      [] OTHER -> {}

\* C12: every display name in the registry and every username or text field
\* of every outbound event is the sanitizer's output for a client string; no
\* raw name or text is stored or broadcast.
C12_OnlySanitizedStrings ==
    /\ \A i \in 1..Len(users) : IsSanitizerOutput(users[i].name)
    /\ \A i \in 1..Len(out) :
           \A str \in EventStrings(out[i].ev) : IsSanitizerOutput(str)

\* a joined connection's message text with markup was broadcast without it
C12_Witness ==
    /\ last.op = "message"
    /\ last.data # Null
    /\ last.data.text = Str(<<"<script>", "a">>)
    /\ Len(out) = 1
    /\ out[1].ev.type = "message"
    /\ out[1].ev.text = <<"a">>

\* C13: a sweep adds no entry and neither removes nor renames the entry of a
\* connection that is alive; a sweep that finds every registered connection
\* alive changes no state and emits nothing.
C13_SweepOnlyRemovesDead ==
    [][last'.op = "sweep" =>
          /\ \A c \in Conns : MapHas(users', c) => HasEntry(c)
          /\ \A c \in Connected :
                 HasEntry(c) =>
                     MapHas(users', c) /\ MapGet(users', c) = MapGet(users, c)
          /\ (\A c \in Conns : HasEntry(c) => c \in Connected) =>
                 /\ users' = users
                 /\ typingUsers' = typingUsers
                 /\ conn' = conn
                 /\ out' = <<>>]_vars

\* a sweep removed a dead connection's entry and kept the alive one's
C13_Witness ==
    /\ last.op = "sweep"
    /\ Len(out) = 1
    /\ Len(users) = 1
    /\ users[1].id \in Connected
    /\ Len(createdOrder) = 2

\* C14: for a joined connection with display name n, typing(b) leaves n in
\* the typing set exactly when b is true and broadcasts one
\* typing{n, b} to every connected connection; the same signal handled twice
\* gives the typing set it gives handled once.
C14_TypingFollowsSignal ==
    (last.op = "typing" /\ HasEntry(last.c)) =>
        LET n == MapGet(users, last.c)
        IN  /\ (n \in typingUsers) <=> last.isTyping
            /\ out = <<[to |-> Connected,
                        ev |-> [type |-> "typing", username |-> n,
                                isTyping |-> last.isTyping]]>>
            /\ typingSet(typingUsers, n, last.isTyping) = typingUsers

\* C15: disconnect of a joined connection emits to every connection still
\* connected exactly userLeft with the leaver's name and then userList, the
\* list being the registry's names without the leaver's entry.
C15_DisconnectEmitsLeftThenList ==
    (last.op = "disconnect" /\ last.username # Undefined) =>
        /\ Len(out) = 2
        /\ out[1].to = Connected /\ out[2].to = Connected
        /\ out[1].ev.type = "userLeft"
        /\ out[1].ev.username = last.username
        /\ out[2].ev.type = "userList"
        /\ ~HasEntry(last.c)
        /\ out[2].ev.users = ArrayFromValues(users)
        /\ \A j \in 1..Len(out[2].ev.ids) : out[2].ev.ids[j] # last.c

\* C16: a handler run that changes the registry emits a userList equal to
\* the registry's names after the change (the sweep: one after each of its
\* deletions); so the most recent userList, if any, equals the registry.
C16_ListFollowsRegistry ==
    /\ [][users' # users =>
            /\ lastUserList' = [sent |-> TRUE, users |-> ArrayFromValues(users')]
            /\ \E i \in 1..Len(out') : out'[i].ev.type = "userList"
            /\ last'.op = "sweep" =>
                   /\ Len(out') = Len(users) - Len(users')
                   /\ \A i \in 1..Len(out') :
                          Len(out'[i].ev.users) = Len(users) - i]_vars
    /\ [](lastUserList.sent => lastUserList.users = ArrayFromValues(users))

\* a disconnect shrank a registry of two and its list shows the one left
C16_Witness ==
    /\ last.op = "disconnect"
    /\ Len(out) = 2
    /\ Len(users) = 1
    /\ lastUserList = [sent |-> TRUE, users |-> <<users[1].name>>]
    /\ Len(createdOrder) = 2

\* C17: every name in the typing set is the display name of a connection
\* that is in the registry.
C17_TypingNamesArePresent ==
    \A n \in typingUsers : \E i \in 1..Len(users) : users[i].name = n

\* C18: a present connection that signalled typing(true), and since then
\* neither signalled typing(false) nor left the registry, has its display
\* name in the typing set, whatever other connections did in between.
C18_TypingSurvivesOthers ==
    typingSince.on =>
        \A c \in typingSince.conns : MapGet(users, c) \in typingUsers

\* C19: message, deleteMessage and editMessage leave the registry and the
\* typing set as they were, whether the event is broadcast, ignored or
\* fails; nothing of the message stays in the server's state.
C19_MessagesLeaveStateAlone ==
    [][last'.op \in {"message", "deleteMessage", "editMessage"} =>
          (users' = users /\ typingUsers' = typingUsers)]_vars

\* a message that failed was answered with an error while two connections
\* were present and one was typing
C19_Witness ==
    /\ last.op = "message"
    /\ Len(out) = 1
    /\ out[1].ev.type = "error"
    /\ Len(users) = 2
    /\ typingUsers # {}

====
